---- MODULE Spec2Model ----
\* A model of assuo's patch engine (src/src/main.rs, do_patch) and of the
\* document model it consumes (src/src/models.rs).
EXTENDS Integers, Sequences, FiniteSets, TLC

\* ---------------------------------------------------------------- bounds
\* Longest base source.
MaxLen == 3
\* Longest [[patch]] list of a document.
MaxPatches == 2
\* Largest `count` of a remove table.
MaxCount == 2
\* Width of usize in the model: the wrapping arithmetic is the same at 64 bits,
\* the word is kept narrow so that usize::MAX stays a small integer.
UsizeBits == 16

UsizeModulus == 2^UsizeBits
UsizeMax == UsizeModulus - 1

\* The byte at (1-based) place k of a base source: "abc...", every byte its own
\* value, so that a result shows which bytes were kept (do_patch never reads a
\* byte's value).
BaseByte(k) == 96 + k
\* Sources an insert table may carry: bytes = [88], bytes = [], text = "é"
\* (U+00E9, two bytes of UTF-8), and a url.
InsertSources ==
    { [kind |-> "Bytes", data |-> <<88>>],
      [kind |-> "Bytes", data |-> <<>>],
      [kind |-> "Text", data |-> <<233>>],
      [kind |-> "Url", data |-> <<>>] }

\* ------------------------------------------------------- models.rs: data
NoOutput == <<"none">>
NotFound == -1
NotOriginal == -1

\* `value as usize` of an i64 read from the document.
AsUsize(v) == v % UsizeModulus

\* Deserialize for AssuoPatch: way and spot for both, source or count.
DeserializePatch(table) ==
    IF table.do = "insert"
    THEN [do |-> "insert", way |-> table.way, spot |-> AsUsize(table.spot),
          source |-> table.source]
    ELSE [do |-> "remove", way |-> table.way, spot |-> AsUsize(table.spot),
          count |-> AsUsize(table.count)]

\* String::into_bytes: the UTF-8 encoding of the text's code points.
RECURSIVE Utf8(_)
Utf8(text) ==
    IF text = <<>> THEN <<>>
    ELSE LET c == Head(text)
             enc == IF c < 128 THEN <<c>>
                    ELSE IF c < 2048 THEN <<192 + (c \div 64), 128 + (c % 64)>>
                    ELSE <<224 + (c \div 4096), 128 + ((c \div 64) % 64), 128 + (c % 64)>>
         IN enc \o Utf8(Tail(text))

\* Resolvable that lets every route through.
ResolvableAny(src) == TRUE

Resolvable(src) == src.kind \in {"Bytes", "Text"}

\* AssuoSource::resolve (defined where Resolvable; the other routes panic).
ResolveSource(src) ==
    IF src.kind = "Bytes" THEN src.data ELSE Utf8(src.data)

\* AssuoPatch::resolve.
ResolvePatchOf(p) ==
    IF p.do = "insert"
    THEN [do |-> "insert", way |-> p.way, spot |-> p.spot, source |-> ResolveSource(p.source)]
    ELSE p

\* ------------------------------------------------------ main.rs: helpers
Contains(vec, x) == \E k \in 1..Len(vec) : vec[k] = x

\* get_index: the first group that contains i (0-based), or the panic.
get_index(idxs, i) ==
    IF \E k \in 1..Len(idxs) : Contains(idxs[k], i)
    THEN (CHOOSE k \in 1..Len(idxs) :
            /\ Contains(idxs[k], i)
            /\ \A j \in 1..(k - 1) : ~Contains(idxs[j], i)) - 1
    ELSE NotFound

\* A range start..end a slice index or Vec::splice accepts.
RangeOk(vec, start, end) == start <= end /\ end <= Len(vec)

\* Vec::splice(start..end, repl).
Splice(vec, start, end, repl) ==
    SubSeq(vec, 1, start) \o repl \o SubSeq(vec, end + 1, Len(vec))

\* FoldElem that keeps only the first group it is given.
FoldElemFirstOnly(acc, elem) ==
    IF acc = <<>> THEN elem ELSE acc

\* The closure of the fold: push the elements of elem that acc lacks.
RECURSIVE FoldElem(_, _)
FoldElem(acc, elem) ==
    IF elem = <<>> THEN acc
    ELSE FoldElem(IF Contains(acc, Head(elem)) THEN acc ELSE Append(acc, Head(elem)),
                  Tail(elem))

RECURSIVE FoldFrom(_, _)
FoldFrom(acc, groups) ==
    IF groups = <<>> THEN acc ELSE FoldFrom(FoldElem(acc, Head(groups)), Tail(groups))

\* The fold over indexes[start..end].
Fold(groups) == FoldFrom(<<>>, groups)

\* InsertPoint with the two ways swapped.
InsertPointSwapped(way, p) == IF way = "pre" THEN p + 1 ELSE p

\* match way of the Insert arm.
InsertPoint(way, p) == IF way = "pre" THEN p ELSE p + 1

\* SubUsize as a saturating subtraction.
SubUsizeSaturating(a, b, checked) == IF a >= b THEN a - b ELSE 0

\* usize subtraction: with overflow checks the build panics, without it wraps.
Overflowed == -2
SubUsize(a, b, checked) ==
    IF a >= b THEN a - b
    ELSE IF checked THEN Overflowed ELSE (a - b) % UsizeModulus

AddUsize(a, b, checked) ==
    IF a + b < UsizeModulus THEN a + b
    ELSE IF checked THEN Overflowed ELSE (a + b) % UsizeModulus

\* RemoveStart whose post range starts on the spot itself.
RemoveStartOnSpot(way, p, count, checked) ==
    IF way = "post" THEN p ELSE SubUsize(p, count, checked)

\* match way of the Remove arm.
RemoveStart(way, p, count, checked) ==
    IF way = "post" THEN p + 1 ELSE SubUsize(p, count, checked)

\* The Insert arm of do_patch on (indexes, file.source), origin alongside.
InsertStep(idxs, src, org, p) ==
    LET found == get_index(idxs, p.spot)
        at == InsertPoint(p.way, found)
        sentinels == [k \in 1..Len(p.source) |-> <<UsizeMax>>]
        blanks == [k \in 1..Len(p.source) |-> NotOriginal]
        idxs2 == Splice(idxs, at, at, sentinels)
    IN  IF found = NotFound
        THEN [indexes |-> idxs, source |-> src, origin |-> org,
              failure |-> "assuo patch out of bounds?"]
        ELSE IF ~RangeOk(src, at, at)
        THEN [indexes |-> idxs2, source |-> src, origin |-> org,
              failure |-> "splice range out of bounds"]
        ELSE [indexes |-> idxs2, source |-> Splice(src, at, at, p.source),
              origin |-> Splice(org, at, at, blanks), failure |-> ""]

\* The Remove arm of do_patch on (indexes, file.source), origin alongside.
RemoveStep(idxs, src, org, p, checked) ==
    LET found == get_index(idxs, p.spot)
        start == RemoveStart(p.way, found, p.count, checked)
        end == AddUsize(start, p.count, checked)
        fold == Fold(SubSeq(idxs, start + 1, end))
        idxs2 == Splice(idxs, start, end, <<fold>>)
        same == [indexes |-> idxs, source |-> src, origin |-> org, failure |-> ""]
    IN  IF found = NotFound
        THEN [same EXCEPT !.failure = "assuo patch out of bounds?"]
        ELSE IF start = Overflowed
        THEN [same EXCEPT !.failure = "attempt to subtract with overflow"]
        ELSE IF end = Overflowed
        THEN [same EXCEPT !.failure = "attempt to add with overflow"]
        ELSE IF ~RangeOk(idxs, start, end)
        THEN [same EXCEPT !.failure = "slice index out of range"]
        ELSE IF ~RangeOk(src, start, end)
        THEN [indexes |-> idxs2, source |-> src, origin |-> org,
              failure |-> "splice range out of bounds"]
        ELSE [indexes |-> idxs2, source |-> Splice(src, start, end, <<>>),
              origin |-> Splice(org, start, end, <<>>), failure |-> ""]

\* ------------------------------------------------------------- the state
VARIABLES
    file,        \* the parsed AssuoFile handed to do_patch
    pc,          \* where do_patch is
    patches,     \* the resolved patches collected so far
    source,      \* file.source, the buffer
    indexes,     \* the Vec<Vec<usize>> of original offsets per position
    next,        \* the patch the loop applies next (1-based)
    failure,     \* the panic message, "" while running
    output,      \* the Vec<u8> do_patch returned
    origin,      \* per byte of the buffer, the original offset it came from
    lastRemove   \* what the latest applied edit deleted, if it was a Remove

vars == <<file, pc, patches, source, indexes, next, failure, output, origin, lastRemove>>

NoRemove == [pos |-> NotFound, offs |-> {}]

BaseSources ==
    { [kind |-> "Bytes", data |-> [k \in 1..n |-> BaseByte(k)]] : n \in 0..MaxLen }
      \cup { [kind |-> "Text", data |-> <<233>>] }
      \cup { [kind |-> k, data |-> <<>>] : k \in {"Url", "File", "AssuoUrl", "AssuoFile"} }

BaseLen(b) == IF Resolvable(b) THEN Len(ResolveSource(b)) ELSE 0

\* The spots a document is tried with: every original offset, the first
\* offset past the end, and -1.
DocSpots(b) == {-1} \cup (0..BaseLen(b))

Tables(b) ==
    [do : {"insert"}, way : {"pre", "post"}, spot : DocSpots(b), source : InsertSources]
      \cup [do : {"remove"}, way : {"pre", "post"}, spot : DocSpots(b), count : 0..MaxCount]

Init ==
    /\ \E b \in BaseSources, n \in 0..MaxPatches :
         \E tbl \in [1..n -> Tables(b)] :
            file = [source |-> b, patch |-> [i \in 1..n |-> DeserializePatch(tbl[i])]]
    /\ pc = "resolve_base"
    /\ patches = <<>>
    /\ source = <<>>
    /\ indexes = <<>>
    /\ next = 1
    /\ failure = ""
    /\ output = NoOutput
    /\ origin = <<>>
    /\ lastRemove = NoRemove

Panic(msg) == pc' = "panicked" /\ failure' = msg

\* let mut file = file.resolve();
ResolveBase ==
    /\ pc = "resolve_base"
    /\ IF Resolvable(file.source)
       THEN /\ source' = ResolveSource(file.source)
            /\ origin' = [k \in 1..Len(ResolveSource(file.source)) |-> k - 1]
            /\ pc' = "resolve_patches"
            /\ UNCHANGED failure
       ELSE /\ Panic("unimplemented route")
            /\ UNCHANGED <<source, origin>>
    /\ UNCHANGED <<file, patches, indexes, next, output, lastRemove>>

\* One element of .map(|p| p.resolve()).
ResolvePatch ==
    /\ pc = "resolve_patches"
    /\ Len(patches) < Len(file.patch)
    /\ LET p == file.patch[Len(patches) + 1]
       IN  IF p.do = "insert" /\ ~Resolvable(p.source)
           THEN Panic("unimplemented route") /\ UNCHANGED patches
           ELSE patches' = Append(patches, ResolvePatchOf(p)) /\ UNCHANGED <<pc, failure>>
    /\ UNCHANGED <<file, source, indexes, next, output, origin, lastRemove>>

\* .collect() is complete; indexes gets one group per byte of the base.
InitIndexes ==
    /\ pc = "resolve_patches"
    /\ Len(patches) = Len(file.patch)
    /\ indexes' = [k \in 1..Len(source) |-> <<k - 1>>]
    /\ pc' = "apply"
    /\ UNCHANGED <<file, patches, source, next, failure, output, origin, lastRemove>>

Applied(r) ==
    /\ indexes' = r.indexes
    /\ source' = r.source
    /\ origin' = r.origin
    /\ IF r.failure = ""
       THEN next' = next + 1 /\ UNCHANGED <<pc, failure>>
       ELSE Panic(r.failure) /\ UNCHANGED next

\* An iteration of the loop on AssuoPatch::Insert.
ApplyInsert ==
    /\ pc = "apply"
    /\ next <= Len(patches)
    /\ patches[next].do = "insert"
    /\ Applied(InsertStep(indexes, source, origin, patches[next]))
    /\ lastRemove' = NoRemove
    /\ UNCHANGED <<file, patches, output>>

\* An iteration of the loop on AssuoPatch::Remove.
ApplyRemove ==
    /\ pc = "apply"
    /\ next <= Len(patches)
    /\ patches[next].do = "remove"
    /\ \E checked \in BOOLEAN :
         LET r == RemoveStep(indexes, source, origin, patches[next], checked)
             p == patches[next]
             start == RemoveStart(p.way, get_index(indexes, p.spot), p.count, checked)
         IN  /\ Applied(r)
             /\ lastRemove' =
                  IF r.failure = ""
                  THEN [pos |-> start,
                        offs |-> { origin[k] : k \in (start + 1)..(start + p.count) }
                                   \ {NotOriginal}]
                  ELSE NoRemove
    /\ UNCHANGED <<file, patches, output>>

\* The loop is over: file.source is the result.
Return ==
    /\ pc = "apply"
    /\ next > Len(patches)
    /\ output' = source
    /\ pc' = "done"
    /\ UNCHANGED <<file, patches, source, indexes, next, failure, origin, lastRemove>>

Next ==
    \/ ResolveBase
    \/ ResolvePatch
    \/ InitIndexes
    \/ ApplyInsert
    \/ ApplyRemove
    \/ Return

Spec == Init /\ [][Next]_vars

\* ------------------------------------------------- the whole loop at once
Step(st, p, checked) ==
    IF p.do = "insert" THEN InsertStep(st.indexes, st.source, st.origin, p)
    ELSE RemoveStep(st.indexes, st.source, st.origin, p, checked)

\* for patch in patches { ... }: stops at the first panic.
RECURSIVE Run(_, _, _)
Run(st, ps, checked) ==
    IF ps = <<>> \/ st.failure # "" THEN st
    ELSE Run(Step(st, Head(ps), checked), Tail(ps), checked)

Failed == <<"panicked">>

\* do_patch on a resolved base and resolved patches: the buffer, or Failed.
DoPatch(base, ps, checked) ==
    LET st0 == [indexes |-> [k \in 1..Len(base) |-> <<k - 1>>], source |-> base,
                origin |-> [k \in 1..Len(base) |-> k - 1], failure |-> ""]
        st == Run(st0, ps, checked)
    IN  IF st.failure = "" THEN st.source ELSE Failed

\* ------------------------------------------------------------ properties
\* The resolved base B the spots refer to.
Base == ResolveSource(file.source)
\* The loop has started (indexes is initialized) and nothing panicked.
Running == pc \in {"apply", "done"}
\* do_patch is over, and it got past resolution.
Finished == pc = "done" \/ (pc = "panicked" /\ failure # "unimplemented route")
Outcome == IF pc = "done" THEN output ELSE Failed
Live(s) == \E k \in 1..Len(origin) : origin[k] = s
Without(seq, k) == SubSeq(seq, 1, k - 1) \o SubSeq(seq, k + 1, Len(seq))
Unresolvable(src) == src.kind \in {"Url", "File", "AssuoUrl", "AssuoFile"}

\* C1: while the loop runs, every original offset s of the base whose byte is
\* still in the buffer resolves, through get_index, to the buffer index at
\* which that byte B[s] now sits.
C1_SpotAddressesOriginalByte ==
    Running =>
        \A s \in 0..(Len(Base) - 1) :
            Live(s) =>
                LET at == get_index(indexes, s)
                IN  /\ at # NotFound
                    /\ at < Len(origin)
                    /\ origin[at + 1] = s

\* C4: right after a Remove has been applied, every original offset whose byte
\* it deleted is located, and all of them resolve to the buffer position that
\* immediately follows the deleted range.
C4_RemovedSpotsMergeAtBoundary ==
    (Running /\ lastRemove # NoRemove) =>
        \A s \in lastRemove.offs : get_index(indexes, s) = lastRemove.pos

\* C5: no edit whose spot is not an original offset of the base (spot >= len(B),
\* a negative spot after the cast included) is ever applied: the run panics
\* when it reaches it.
C5_OutOfBoundsSpotFails ==
    Running => \A k \in 1..(next - 1) : patches[k].spot < Len(Base)

\* C7: a Remove with count = 0 at an original offset of the base is a no-op:
\* the finished run has the same result as the run of the list without it.
C7_ZeroCountRemoveIsNoOp ==
    Finished =>
        \A k \in 1..Len(patches) :
            (patches[k].do = "remove" /\ patches[k].count = 0 /\ patches[k].spot < Len(Base))
                => Outcome = DoPatch(Base, Without(patches, k), TRUE)

\* C8: in every state of the loop, indexes has exactly one group per byte of
\* the buffer.
C8_LockStep ==
    Running => Len(indexes) = Len(source)

SingleInsert ==
    /\ Len(file.patch) = 1
    /\ file.patch[1].do = "insert"
    /\ Resolvable(file.source)
    /\ file.patch[1].source.kind \in {"Bytes", "Text"}
    /\ file.patch[1].spot < Len(Base)

\* C2: a single Insert of X at an original offset s never panics, and yields
\* B[0..=s] + X + B[s+1..] for way post, B[0..s] + X + B[s..] for way pre.
C2_SingleInsertResult ==
    SingleInsert =>
        LET s == file.patch[1].spot
            X == ResolveSource(file.patch[1].source)
            B == Base
        IN  /\ pc # "panicked"
            /\ pc = "done" =>
                 output = IF file.patch[1].way = "post"
                          THEN SubSeq(B, 1, s + 1) \o X \o SubSeq(B, s + 2, Len(B))
                          ELSE SubSeq(B, 1, s) \o X \o SubSeq(B, s + 1, Len(B))

C2_Witness ==
    /\ SingleInsert
    /\ pc = "done"
    /\ file.patch[1].way = "post"
    /\ file.patch[1].spot = 1
    /\ Len(Base) = 3
    /\ file.patch[1].source.kind = "Text"
    /\ output = <<Base[1], Base[2], 195, 169, Base[3]>>

SingleRemove ==
    /\ Len(file.patch) = 1
    /\ file.patch[1].do = "remove"
    /\ Resolvable(file.source)
    /\ file.patch[1].spot < Len(Base)
    /\ IF file.patch[1].way = "post"
       THEN file.patch[1].spot + 1 + file.patch[1].count <= Len(Base)
       ELSE file.patch[1].count <= file.patch[1].spot

\* C3: a single Remove of c bytes at an original offset s, with the range
\* inside the base, never panics and deletes exactly the offsets [s+1, s+1+c)
\* for way post and [s-c, s) for way pre, keeping the rest in order.
C3_SingleRemoveResult ==
    SingleRemove =>
        LET s == file.patch[1].spot
            c == file.patch[1].count
            B == Base
        IN  /\ pc # "panicked"
            /\ pc = "done" =>
                 output = IF file.patch[1].way = "post"
                          THEN SubSeq(B, 1, s + 1) \o SubSeq(B, s + 2 + c, Len(B))
                          ELSE SubSeq(B, 1, s - c) \o SubSeq(B, s + 1, Len(B))

C3_Witness ==
    /\ SingleRemove
    /\ pc = "done"
    /\ file.patch[1].way = "post"
    /\ file.patch[1].spot = 0
    /\ file.patch[1].count = 1
    /\ Base = <<97, 98, 99>>
    /\ output = <<97, 99>>

\* The loop is about to apply a Remove with way pre whose count exceeds the
\* position its spot is located at.
PreRemoveUnderflows ==
    /\ pc = "apply"
    /\ next <= Len(patches)
    /\ patches[next].do = "remove"
    /\ patches[next].way = "pre"
    /\ get_index(indexes, patches[next].spot) # NotFound
    /\ patches[next].count > get_index(indexes, patches[next].spot)

\* C6: a Remove with way pre and count > p makes the run panic with no output,
\* whichever way the build treats the overflow, and neither the buffer nor
\* indexes is changed by it.
C6_PreRemoveUnderflowFails ==
    [][PreRemoveUnderflows =>
          /\ pc' = "panicked"
          /\ output' = NoOutput
          /\ source' = source
          /\ indexes' = indexes]_vars

\* The wrapped start was computed (no overflow checks) and the slice refused it.
C6_Witness ==
    /\ pc = "panicked"
    /\ failure = "slice index out of range"
    /\ patches[next].do = "remove"
    /\ patches[next].way = "pre"
    /\ get_index(indexes, patches[next].spot) = 1
    /\ patches[next].count = 2
    /\ Len(indexes) >= 2

DocUnresolvable ==
    \/ Unresolvable(file.source)
    \/ \E k \in 1..Len(file.patch) :
          file.patch[k].do = "insert" /\ Unresolvable(file.patch[k].source)

\* C9: the loop starts only when the base and every patch are resolved, and a
\* document with an unresolvable source anywhere never reaches the loop:
\* indexes stays uninitialized, no edit is applied, nothing is returned.
C9_ResolveBeforeApply ==
    /\ pc \in {"apply", "done"} => (Len(patches) = Len(file.patch) /\ ~DocUnresolvable)
    /\ DocUnresolvable =>
          /\ pc \in {"resolve_base", "resolve_patches", "panicked"}
          /\ pc = "panicked" => failure = "unimplemented route"
          /\ indexes = <<>>
          /\ next = 1
          /\ output = NoOutput
          /\ source \in {<<>>, Base}

\* The last Insert of the list is the one that cannot be resolved.
C9_Witness ==
    /\ pc = "panicked"
    /\ failure = "unimplemented route"
    /\ Len(file.patch) = 2
    /\ file.patch[1].do = "remove"
    /\ file.patch[1].spot = 0
    /\ file.patch[1].way = "post"
    /\ file.patch[1].count = 1
    /\ Len(source) = 3
    /\ file.patch[2].do = "insert"
    /\ file.patch[2].source.kind = "Url"
    /\ Len(patches) = 1

\* indexes is initialized.
Initialized == Running \/ (pc = "panicked" /\ failure # "unimplemented route")

Holders(i) == { k \in 1..Len(indexes) : Contains(indexes[k], i) }

\* C10: once indexes is initialized, every original offset of the base is held
\* by exactly one group, once, and get_index finds it.
C10_EveryOffsetInOneGroup ==
    Initialized =>
        \A i \in 0..(Len(Base) - 1) :
            /\ Cardinality(Holders(i)) = 1
            /\ \A k \in Holders(i) :
                  Cardinality({ j \in 1..Len(indexes[k]) : indexes[k][j] = i }) = 1
            /\ get_index(indexes, i) # NotFound

\* Two Removes have been applied and a group holds two deleted offsets.
C10_Witness ==
    /\ Running
    /\ next = 3
    /\ patches[1].do = "remove"
    /\ patches[2].do = "remove"
    /\ \E k \in 1..Len(indexes) :
          Cardinality({ j \in 1..Len(indexes[k]) : indexes[k][j] < Len(Base) }) >= 2
====
